---- MODULE Spec2Model ----
(***************************************************************************)
(* State-intro: a React list widget (src/src/App.jsx).  The App component  *)
(* holds two pieces of state, inputValue (the draft) and items (the list), *)
(* changed by two event handlers, handleChange and handleSubmit, and       *)
(* rendered through List / ListItem or a placeholder paragraph.            *)
(*                                                                         *)
(* A JavaScript string is modelled as the sequence of its UTF-16 code       *)
(* units (natural numbers), so that String.prototype.trim is computed, not *)
(* assumed: 32 is the space, 9 the tab, 97 "a", 98 "b".                    *)
(***************************************************************************)
EXTENDS Naturals, Sequences, FiniteSets

VARIABLES
    inputValue,   \* useState('') : the text of the input control
    items,        \* useState([]) : the committed items
    view,         \* what App's last render returned
    event,        \* the last event the browser dispatched, as the handler left it
    history,      \* the draft held at each form-submission event, oldest first
    reloaded,     \* TRUE once a form submission ran its default action (page reload)
    props,        \* the `items` prop handed to a stand-alone List render
    rendered      \* what that List render returned

vars == <<inputValue, items, view, event, history, reloaded, props, rendered>>

----------------------------------------------------------------------------
(* Bounds and input sets *)

\* number of form-submission events in one behaviour
MaxSubmits == 3

\* length of the sequences handed to List in SpecList
MaxList == 3

\* The texts the user can put in the input control:
\*   ""                the empty string
\*   " "               a space
\*   "\t"              a tab
\*   "\f\u3000"        a form feed and an ideographic space (blank too)
\*   "a", "b"          plain words
\*   "\u00a0a "        a word between a no-break space and a space
\*   "a b"             a text with inner white space
Drafts ==
    { <<>>,
      <<32>>,
      <<9>>,
      <<12, 12288>>,
      <<97>>,
      <<98>>,
      <<160, 97, 32>>,
      <<97, 32, 98>> }

SeqsUpTo(S, n) == UNION { [1..k -> S] : k \in 0..n }

----------------------------------------------------------------------------
(* String.prototype.trim *)

\* The code units trim removes, ECMAScript WhiteSpace and LineTerminator:
\*   U+0009 TAB, U+000A LF, U+000B VT, U+000C FF, U+000D CR, U+0020 SPACE,
\*   U+00A0 NBSP, U+1680 OGHAM SPACE MARK, U+2000..U+200A (EN QUAD .. HAIR
\*   SPACE), U+2028 LINE SEPARATOR, U+2029 PARAGRAPH SEPARATOR, U+202F NARROW
\*   NBSP, U+205F MEDIUM MATHEMATICAL SPACE, U+3000 IDEOGRAPHIC SPACE,
\*   U+FEFF BOM.
WhiteSpace ==
    {9, 10, 11, 12, 13, 32, 160, 5760} \cup (8192..8202)
        \cup {8232, 8233, 8239, 8287, 12288, 65279}

RECURSIVE trimStart(_)
trimStart(s) ==
    IF s # <<>> /\ Head(s) \in WhiteSpace THEN trimStart(Tail(s)) ELSE s

RECURSIVE trimEnd(_)
trimEnd(s) ==
    IF s # <<>> /\ s[Len(s)] \in WhiteSpace
    THEN trimEnd(SubSeq(s, 1, Len(s) - 1))
    ELSE s

trim(s) == trimEnd(trimStart(s))

----------------------------------------------------------------------------
(* Components *)

\* <li className=...>{item}</li>
ListItem(item) == [tag |-> "li", text |-> item]

List_reversed(its) ==
    [tag |-> "ul",
     children |-> [i \in 1..Len(its) |->
                      [key |-> i - 1, node |-> ListItem(its[Len(its) + 1 - i])]]]

\* <ul>{items.map((item, index) => <ListItem key={index} item={item} />)}</ul>
\* JavaScript indexes from 0: the i-th child (1-based here) has key i - 1.
List(its) ==
    [tag |-> "ul",
     children |-> [i \in 1..Len(its) |-> [key |-> i - 1, node |-> ListItem(its[i])]]]

\* <p ...>No items yet. Add something!</p>
Placeholder == [tag |-> "p", text |-> "No items yet. Add something!"]

AppRender_alwaysList(iv, its) ==
    [input |-> iv, body |-> <<List(its)>>]

\* What App returns: the controlled input showing inputValue, and below the
\* form either the List or the placeholder (items.length > 0 ? ... : ...).
AppRender(iv, its) ==
    [input |-> iv,
     body  |-> IF Len(its) > 0 THEN <<List(its)>> ELSE <<Placeholder>>]

----------------------------------------------------------------------------
(* Events and handlers *)

\* A DOM event as the handlers see it: `value` is event.target.value,
\* `calls` the calls the handler made, in order, `prev` the type of the
\* event dispatched before it.
NewEvent(type, value) ==
    [type |-> type, value |-> value, defaultPrevented |-> FALSE,
     calls |-> <<>>, prev |-> event.type]

NoEvent ==
    [type |-> "none", value |-> <<>>, defaultPrevented |-> FALSE,
     calls |-> <<>>, prev |-> "none"]

\* event.preventDefault()
preventDefault(e) ==
    [e EXCEPT !.defaultPrevented = TRUE, !.calls = Append(@, "preventDefault")]

Called(e, name) == [e EXCEPT !.calls = Append(@, name)]

handleChange_trimmed(iv, its, e) ==
    [inputValue |-> trim(e.value), items |-> its,
     event |-> Called(e, "setInputValue")]

\* setInputValue(event.target.value)
handleChange(iv, its, e) ==
    [inputValue |-> e.value, items |-> its,
     event |-> Called(e, "setInputValue")]

\* stores the trimmed draft
handleSubmit_storeTrimmed(iv, its, e) ==
    LET e1 == Called(preventDefault(e), "trim")
    IN  IF trim(iv) # <<>>
        THEN [inputValue |-> <<>>, items |-> Append(its, trim(iv)),
              event |-> Called(Called(e1, "setItems"), "setInputValue")]
        ELSE [inputValue |-> iv, items |-> its, event |-> e1]

\* clears the draft on a rejected submit too
handleSubmit_clearOnReject(iv, its, e) ==
    LET e1 == Called(preventDefault(e), "trim")
    IN  IF trim(iv) # <<>>
        THEN [inputValue |-> <<>>, items |-> Append(its, iv),
              event |-> Called(Called(e1, "setItems"), "setInputValue")]
        ELSE [inputValue |-> <<>>, items |-> its,
              event |-> Called(e1, "setInputValue")]

\* tests inputValue !== '' instead of inputValue.trim() !== ''
handleSubmit_noTrim(iv, its, e) ==
    LET e1 == preventDefault(e)
    IN  IF iv # <<>>
        THEN [inputValue |-> <<>>, items |-> Append(its, iv),
              event |-> Called(Called(e1, "setItems"), "setInputValue")]
        ELSE [inputValue |-> iv, items |-> its, event |-> e1]

\* setItems([inputValue, ...items])
handleSubmit_prepend(iv, its, e) ==
    LET e1 == Called(preventDefault(e), "trim")
    IN  IF trim(iv) # <<>>
        THEN [inputValue |-> <<>>, items |-> <<iv>> \o its,
              event |-> Called(Called(e1, "setItems"), "setInputValue")]
        ELSE [inputValue |-> iv, items |-> its, event |-> e1]

\* setItems([inputValue])
handleSubmit_replace(iv, its, e) ==
    LET e1 == Called(preventDefault(e), "trim")
    IN  IF trim(iv) # <<>>
        THEN [inputValue |-> <<>>, items |-> <<iv>>,
              event |-> Called(Called(e1, "setItems"), "setInputValue")]
        ELSE [inputValue |-> iv, items |-> its, event |-> e1]

\* event.preventDefault() only inside the accepting branch
handleSubmit_preventLate(iv, its, e) ==
    LET e1 == Called(e, "trim")
    IN  IF trim(iv) # <<>>
        THEN [inputValue |-> <<>>, items |-> Append(its, iv),
              event |-> Called(Called(preventDefault(e1), "setItems"),
                               "setInputValue")]
        ELSE [inputValue |-> iv, items |-> its, event |-> e1]

\* without setInputValue('')
handleSubmit_keepDraft(iv, its, e) ==
    LET e1 == Called(preventDefault(e), "trim")
    IN  IF trim(iv) # <<>>
        THEN [inputValue |-> iv, items |-> Append(its, iv),
              event |-> Called(e1, "setItems")]
        ELSE [inputValue |-> iv, items |-> its, event |-> e1]

\* event.preventDefault();
\* if (inputValue.trim() !== '') { setItems([...items, inputValue]); setInputValue(''); }
\* iv and its are the values of the render the handler closes over; the
\* result is the state React commits once the handler has returned.
handleSubmit(iv, its, e) ==
    LET e1 == Called(preventDefault(e), "trim")
    IN  IF trim(iv) # <<>>
        THEN [inputValue |-> <<>>, items |-> Append(its, iv),
              event |-> Called(Called(e1, "setItems"), "setInputValue")]
        ELSE [inputValue |-> iv, items |-> its, event |-> e1]

----------------------------------------------------------------------------
(* The application *)

NoRender == [tag |-> "none"]

Init ==
    /\ inputValue = <<>>
    /\ items = <<>>
    /\ view = AppRender(<<>>, <<>>)
    /\ event = NoEvent
    /\ history = <<>>
    /\ reloaded = FALSE
    /\ props = <<>>
    /\ rendered = NoRender

\* <input onChange={handleChange}>: the user edits the text to newText;
\* React runs the handler, commits the state and renders again.
OnChange(newText) ==
    LET r == handleChange(inputValue, items, NewEvent("change", newText))
    IN  /\ inputValue' = r.inputValue
        /\ items' = r.items
        /\ event' = r.event
        /\ view' = AppRender(r.inputValue, r.items)
        /\ UNCHANGED <<history, reloaded, props, rendered>>

\* <form onSubmit={handleSubmit}>: the user clicks Add or presses Enter.
\* React runs the handler, commits the state and renders again; then the
\* browser runs the form's default action unless the handler prevented it:
\* it loads the page anew, which mounts App with its initial state.
OnSubmit ==
    /\ Len(history) < MaxSubmits
    /\ LET r == handleSubmit(inputValue, items, NewEvent("submit", inputValue))
       IN  /\ event' = r.event
           /\ history' = Append(history, inputValue)
           /\ IF r.event.defaultPrevented
              THEN /\ inputValue' = r.inputValue
                   /\ items' = r.items
                   /\ view' = AppRender(r.inputValue, r.items)
                   /\ UNCHANGED reloaded
              ELSE /\ inputValue' = <<>>
                   /\ items' = <<>>
                   /\ view' = AppRender(<<>>, <<>>)
                   /\ reloaded' = TRUE
    /\ UNCHANGED <<props, rendered>>

Next ==
    \/ \E newText \in Drafts : OnChange(newText)
    \/ OnSubmit

Spec == Init /\ [][Next]_vars

----------------------------------------------------------------------------
(* List as a pure function of its props *)

InitList ==
    /\ inputValue = <<>>
    /\ items = <<>>
    /\ view = AppRender(<<>>, <<>>)
    /\ event = NoEvent
    /\ history = <<>>
    /\ reloaded = FALSE
    /\ props \in SeqsUpTo(Drafts, MaxList)
    /\ rendered = NoRender

RenderList ==
    /\ rendered = NoRender
    /\ rendered' = List(props)
    /\ UNCHANGED <<inputValue, items, view, event, history, reloaded, props>>

NextList == RenderList

SpecList == InitList /\ [][NextList]_vars

----------------------------------------------------------------------------
(* Properties *)

Last(s) == s[Len(s)]

IsPrefix(s, t) == Len(s) <= Len(t) /\ SubSeq(t, 1, Len(s)) = s

\* the drafts of h whose trimmed form is not empty, in the order of h
RECURSIVE Accepted(_)
Accepted(h) ==
    IF h = <<>> THEN <<>>
    ELSE IF trim(Head(h)) # <<>>
         THEN <<Head(h)>> \o Accepted(Tail(h))
         ELSE Accepted(Tail(h))

\* a step of a form-submission event (every such event extends history)
SubmitStep == history' # history

\* C1: a submit of a draft whose trimmed form is not empty appends exactly
\* that draft, untrimmed, as the last element of items, and empties the draft.
C1_SubmitAppendsDraft ==
    [][(SubmitStep /\ trim(inputValue) # <<>>)
          => (items' = Append(items, inputValue) /\ inputValue' = <<>>)]_vars

\* an accepted submit of a draft with surrounding spaces has just happened,
\* on a list that already held an item
C1_Witness ==
    /\ event.type = "submit"
    /\ history # <<>>
    /\ trim(Last(history)) # <<>>
    /\ trim(Last(history)) # Last(history)
    /\ Len(items) >= 2
    /\ Last(items) = Last(history)
    /\ inputValue = <<>>

\* C2: a submit of a draft that is empty after trimming is a silent no-op:
\* items, the draft and the display stay as they were, and the page is not
\* reloaded.
C2_RejectedSubmitNoOp ==
    [][(SubmitStep /\ trim(inputValue) = <<>>)
          => (items' = items /\ inputValue' = inputValue
              /\ view' = view /\ reloaded' = reloaded)]_vars

\* a rejected submit of a whitespace-only draft has just happened: the draft
\* is still there and the list still holds its item
C2_Witness ==
    /\ event.type = "submit"
    /\ history # <<>>
    /\ Last(history) # <<>>
    /\ trim(Last(history)) = <<>>
    /\ inputValue = Last(history)
    /\ items # <<>>

\* C3: no element of items is empty after trimming.
C3_NoBlankItem ==
    \A i \in 1..Len(items) : trim(items[i]) # <<>>

\* the list holds items while the draft is whitespace-only, after a
\* whitespace-only draft was submitted
C3_Witness ==
    /\ Len(items) >= 2
    /\ inputValue # <<>>
    /\ trim(inputValue) = <<>>
    /\ \E k \in 1..Len(history) : history[k] # <<>> /\ trim(history[k]) = <<>>

\* C4: items is the sequence of the submitted drafts that were valid (not
\* empty after trimming), in the order of their submission.
C4_ItemsAreAcceptedDraftsInOrder ==
    items = Accepted(history)

\* valid s1, then a rejected draft, then a different valid s2 were submitted
C4_Witness ==
    /\ Len(history) = 3
    /\ trim(history[1]) # <<>>
    /\ trim(history[2]) = <<>>
    /\ trim(history[3]) # <<>>
    /\ history[1] # history[3]
    /\ items = <<history[1], history[3]>>

\* C5: items starts empty, and in every step the old items is a prefix of
\* the new one, longer by one on an accepted submit and by zero otherwise.
C5_AppendOnly ==
    /\ items = <<>>
    /\ [][/\ IsPrefix(items, items')
          /\ Len(items') = Len(items)
               + (IF SubmitStep /\ trim(inputValue) # <<>> THEN 1 ELSE 0)]_vars

\* two accepted submits, a rejected one, and a later change event all left
\* the list with its two items
C5_Witness ==
    /\ Len(items) = 2
    /\ Len(history) = 3
    /\ event.type = "change"
    /\ event.prev = "submit"

\* C6: OnChange(newText) is enabled in every state for every text, sets the
\* draft to exactly newText and leaves items unchanged.
C6_ChangeSetsDraft ==
    /\ [](\A s \in Drafts : ENABLED OnChange(s))
    /\ [][(~SubmitStep)
             => (inputValue' = event'.value /\ items' = items)]_vars

\* a change event has just set a whitespace-only draft on a non-empty list
C6_Witness ==
    /\ event.type = "change"
    /\ event.value # <<>>
    /\ trim(event.value) = <<>>
    /\ inputValue = event.value
    /\ items # <<>>

\* C7: the display holds the list rendering of items exactly when items is
\* not empty and the placeholder exactly when items is empty, never both.
C7_ListOrPlaceholder ==
    LET uls == {i \in DOMAIN view.body : view.body[i].tag = "ul"}
        ps  == {i \in DOMAIN view.body : view.body[i] = Placeholder}
    IN  /\ items # <<>> =>
             (Cardinality(uls) = 1 /\ ps = {} /\ view.body[1] = List(items))
        /\ items = <<>> => (uls = {} /\ Cardinality(ps) = 1)

\* the list is displayed with two items
C7_Witness ==
    /\ Len(items) = 2
    /\ view.body = <<List(items)>>
    /\ Len(view.body[1].children) = 2

\* C8: every form submission, accepted or rejected, prevents the default
\* action, and does so before the emptiness check and before any state
\* setter is called; no submission reloads the page.
C8_SubmitPreventsDefault ==
    /\ ~reloaded
    /\ event.type = "submit" =>
          /\ event.defaultPrevented
          /\ \A i \in DOMAIN event.calls :
                event.calls[i] \in {"trim", "setItems", "setInputValue"}
                   => \E j \in 1..(i - 1) : event.calls[j] = "preventDefault"

\* a rejected submit has just happened after an accepted one, and the item
\* is still there
C8_Witness ==
    /\ event.type = "submit"
    /\ event.defaultPrevented
    /\ "setItems" \notin {event.calls[i] : i \in DOMAIN event.calls}
    /\ items # <<>>
    /\ ~reloaded

\* C9: List renders one child per element of its props, the i-th child
\* showing the i-th element under key i - 1 (the element's index), and
\* leaves the application's state alone.
C9_ListRendersEachInOrder ==
    [][rendered' # rendered =>
          /\ rendered'.tag = "ul"
          /\ Len(rendered'.children) = Len(props)
          /\ \A i \in 1..Len(props) :
                /\ rendered'.children[i].node = [tag |-> "li", text |-> props[i]]
                /\ rendered'.children[i].key = i - 1
          /\ inputValue' = inputValue
          /\ items' = items]_vars

\* a sequence of three with a duplicate has been rendered
C9_Witness ==
    /\ rendered # NoRender
    /\ Len(props) = 3
    /\ props[1] = props[3]
    /\ props[1] # props[2]
    /\ Len(rendered.children) = 3

\* C10: a submit that directly follows a submit changes neither items nor
\* the draft.
C10_DoubleSubmitIdempotent ==
    [][(event.type = "submit" /\ SubmitStep)
          => (items' = items /\ inputValue' = inputValue)]_vars

\* an accepted submit was directly followed by a second submit, and the
\* draft is in the list once
C10_Witness ==
    /\ event.type = "submit"
    /\ event.prev = "submit"
    /\ Len(history) = 2
    /\ trim(history[1]) # <<>>
    /\ history[2] = <<>>
    /\ items = <<history[1]>>

====
